---- MODULE Spec2Model ----
(***************************************************************************)
(* Model of apps/ops/fix_imports.py: the function fix_imports(filepath)    *)
(* and the module-level driver that calls it on every `.tsx` entry of the  *)
(* routes directory and on the existing paths of other_files, then prints  *)
(* `Fixed <N> files`.                                                      *)
(*                                                                         *)
(* Text (file contents, file names) is a sequence of one-character         *)
(* strings, so that str.replace and str.endswith are computed character by *)
(* character.  The file system is the map `kind` (what a path is) and the  *)
(* map `disk` (what a reader of the path would get at this moment).        *)
(***************************************************************************)
EXTENDS Integers, Sequences, FiniteSets, TLC

(***************************************************************************)
(* Bounds of the model.                                                    *)
(***************************************************************************)
\* Total number of text pieces (see Pieces) held by all files at start.
MaxPieces == 3
\* Number of successive invocations of the script.
MaxRuns == 2
\* Total number of text pieces at start under FairSpec and ConcSpec.
SmallPieces == 2

(***************************************************************************)
(* String literals of the source.                                          *)
(***************************************************************************)
\* The text "@remix-run/cloudflare" between the quotes of both patterns.
Cloudflare ==
  <<"@","r","e","m","i","x","-","r","u","n","/","c","l","o","u","d","f","l","a","r","e">>

\* The text "@remix-run/node" between the quotes of both replacements.
Node ==
  <<"@","r","e","m","i","x","-","r","u","n","/","n","o","d","e">>

SQ == <<"'">>
DQ == <<"\"">>

\* line 12: "'@remix-run/cloudflare'" -> "'@remix-run/node'"
SinglePattern == SQ \o Cloudflare \o SQ
SingleReplacement == SQ \o Node \o SQ
\* line 13: '"@remix-run/cloudflare"' -> '"@remix-run/node"'
DoublePattern == DQ \o Cloudflare \o DQ
DoubleReplacement == DQ \o Node \o DQ

\* line 27: the suffix given to filename.endswith
Suffix == <<".","t","s","x">>

\* line 23
routes_dir == <<"/Users/yangjeep/ws/yangjeep/leaselab2/apps/ops/app/routes">>

\* lines 33-35
other_files == << <<"/Users/yangjeep/ws/yangjeep/leaselab2/apps/ops/app/root.tsx">> >>

(***************************************************************************)
(* Pure functions.                                                         *)
(***************************************************************************)
\* str.replace(old, new) of CPython for a non-empty `old`: find the
\* leftmost occurrence of `old` at or after position i, copy the text before
\* it, emit `new`, and resume right after the occurrence; with no
\* occurrence left, copy the rest.
RECURSIVE ReplaceFrom(_, _, _, _)
ReplaceFrom(s, i, old, new) ==
  LET found == { j \in i..(Len(s) - Len(old) + 1) :
                   s[j] = old[1] /\ SubSeq(s, j, j + Len(old) - 1) = old }
  IN IF found = {}
     THEN SubSeq(s, i, Len(s))
     ELSE LET j == CHOOSE h \in found : \A g \in found : h <= g
          IN SubSeq(s, i, j - 1) \o new
               \o ReplaceFrom(s, j + Len(old), old, new)

\* Mutant of StrReplace: only the leftmost occurrence is replaced.
StrReplaceFirst(s, old, new) ==
  LET hits == { i \in 1..(Len(s) - Len(old) + 1) :
                  SubSeq(s, i, i + Len(old) - 1) = old }
  IN IF hits = {} THEN s
     ELSE LET i == CHOOSE h \in hits : \A g \in hits : h <= g
          IN SubSeq(s, 1, i - 1) \o new \o SubSeq(s, i + Len(old), Len(s))

StrReplace(s, old, new) == ReplaceFrom(s, 1, old, new)

\* lines 12-13: the two substitution rules, single-quoted rule first.
Substitute(s) ==
  StrReplace(StrReplace(s, SinglePattern, SingleReplacement),
             DoublePattern, DoubleReplacement)

\* Mutant of EndsWith: the last character of the suffix is not compared.
EndsWithShort(s, suf) ==
  /\ Len(s) >= Len(suf) - 1
  /\ SubSeq(s, Len(s) - Len(suf) + 2, Len(s)) = SubSeq(suf, 1, Len(suf) - 1)

\* str.endswith
EndsWith(s, suf) ==
  /\ Len(s) >= Len(suf)
  /\ SubSeq(s, Len(s) - Len(suf) + 1, Len(s)) = suf

\* os.path.join(routes_dir, filename)
PathJoin(dir, filename) == dir \o <<"/">> \o filename

(***************************************************************************)
(* The input universe.                                                     *)
(***************************************************************************)
\* Names a listing of the routes directory may hold: one that ends in the
\* suffix and one that does not.
DirNames == { <<"a",".","t","s","x">>, <<"c",".","t","s">> }

Paths == { PathJoin(routes_dir, n) : n \in DirNames }
           \cup { other_files[i] : i \in 1..Len(other_files) }

\* The pieces initial contents are concatenated from: each pattern, and
\* the tail `@remix-run/cloudflare'`.  Alone the tail is text outside both
\* patterns; after a single quote it completes an occurrence of the
\* single-quoted pattern, which overlaps the occurrence before it when the
\* tail follows the single-quoted pattern.
Pieces == << SinglePattern, DoublePattern, Cloudflare \o SQ >>

RECURSIVE Flatten(_)
Flatten(ps) ==
  IF ps = <<>> THEN <<>> ELSE Pieces[Head(ps)] \o Flatten(Tail(ps))

PieceSeqs(n) == UNION { [1..k -> 1..Len(Pieces)] : k \in 0..n }

\* All ways to give every path of S a sequence of pieces, at most `budget`
\* pieces in total.
RECURSIVE Allocs(_, _)
Allocs(S, budget) ==
  IF S = {} THEN { <<>> }
  ELSE LET p == CHOOSE q \in S : TRUE
       IN UNION { { [q \in S |-> IF q = p THEN ps ELSE rest[q]] :
                      rest \in Allocs(S \ {p}, budget - Len(ps)) } :
                  ps \in PieceSeqs(budget) }

Kinds == {"absent", "file", "dir"}

(***************************************************************************)
(* State.                                                                  *)
(***************************************************************************)
VARIABLES
  dirExists,    \* whether routes_dir exists (os.listdir raises otherwise)
  kind,         \* kind[p]: "absent", "file" or "dir"
  disk,         \* disk[p]: the content a reader of file p gets right now
  run,          \* number of the current invocation of the script
  phase,        \* driver position: "start", "dir", "aux", "done", "aborted"
  todo,         \* names of the listing the first loop has not reached yet
  auxi,         \* index into other_files of the second loop
  fixed_count,  \* line 24
  out,          \* standard output of this invocation: the numbers printed
  pc,           \* position inside fix_imports, "idle" outside it
  filepath,     \* argument of the current call of fix_imports
  content,      \* local of fix_imports
  original,     \* local of fix_imports
  handle,       \* mode of the open file object f: "none", "r" or "w"
  result,       \* value fix_imports returns to the loop
  start,        \* history: disk when this invocation began
  opens,        \* history: <<path, mode>> of every open() of this invocation
  calls,        \* history: calls[p], calls of fix_imports(p) this invocation
  acquired,     \* history: open() calls that succeeded in the current call
  writes,       \* history: writes[p], completed rewrites of p this invocation
  lost          \* history: files truncated while holding text fix_imports
                \* had not read

vars == <<dirExists, kind, disk, run, phase, todo, auxi, fixed_count, out,
          pc, filepath, content, original, handle, result, start, opens,
          calls, acquired, writes, lost>>

fsVars == <<dirExists, kind>>
callVars == <<filepath, content, original, handle, result, acquired>>

NoPath == <<>>
NoCalls == [p \in Paths |-> 0]

InitWith(pieces) ==
  /\ dirExists \in BOOLEAN
  /\ kind \in [Paths -> Kinds]
  /\ \A n \in DirNames : ~dirExists => kind[PathJoin(routes_dir, n)] = "absent"
  /\ \E a \in Allocs(Paths, pieces) :
       /\ \A p \in Paths : kind[p] # "file" => a[p] = <<>>
       /\ disk = [p \in Paths |-> Flatten(a[p])]
  /\ start = disk
  /\ run = 1
  /\ phase = "start"
  /\ todo = {}
  /\ auxi = 1
  /\ fixed_count = 0
  /\ out = <<>>
  /\ pc = "idle"
  /\ filepath = NoPath
  /\ content = <<>>
  /\ original = <<>>
  /\ handle = "none"
  /\ result = FALSE
  /\ opens = {}
  /\ calls = NoCalls
  /\ acquired = 0
  /\ writes = NoCalls
  /\ lost = {}

Init == InitWith(MaxPieces)

SmallInit == InitWith(SmallPieces)

(***************************************************************************)
(* The driver, lines 22-42.                                                *)
(***************************************************************************)
\* An unhandled exception: the interpreter unwinds (every `with` closes its
\* file) and the process ends without reaching line 42.
Raise ==
  /\ phase' = "aborted"
  /\ pc' = "idle"
  /\ handle' = "none"

\* line 26: os.listdir(routes_dir) returns the names of the entries.
ListDir ==
  /\ phase = "start"
  /\ dirExists
  /\ todo' = { n \in DirNames : kind[PathJoin(routes_dir, n)] # "absent" }
  /\ phase' = "dir"
  /\ UNCHANGED <<fsVars, disk, run, auxi, fixed_count, out, pc, callVars,
                 start, lost, opens, calls, writes>>

\* line 26: os.listdir raises FileNotFoundError.
ListDirFail ==
  /\ phase = "start"
  /\ ~dirExists
  /\ Raise
  /\ UNCHANGED <<fsVars, disk, run, todo, auxi, fixed_count, out, filepath,
                 content, original, result, acquired, start, lost, opens, calls, writes>>

\* Entering fix_imports(p), line 5.
Call(p) ==
  /\ filepath' = p
  /\ pc' = "open_r"
  /\ acquired' = 0
  /\ calls' = [calls EXCEPT ![p] = @ + 1]

\* lines 26-29: one iteration of the first loop; the listing has no order
\* the program relies on.
NextEntry ==
  /\ phase = "dir"
  /\ pc = "idle"
  /\ \E filename \in todo :
       /\ todo' = todo \ {filename}
       /\ IF EndsWith(filename, Suffix)
          THEN Call(PathJoin(routes_dir, filename))
          ELSE UNCHANGED <<filepath, pc, acquired, calls>>
  /\ UNCHANGED <<fsVars, disk, run, phase, auxi, fixed_count, out, content,
                 original, result, handle, start, lost, opens, writes>>

\* Mutant of EndDirLoop: the first loop is left while entries remain.
EndDirLoopEarly ==
  /\ phase = "dir"
  /\ pc = "idle"
  /\ phase' = "aux"
  /\ UNCHANGED <<fsVars, disk, run, todo, auxi, fixed_count, out, pc, callVars,
                 start, lost, opens, calls, writes>>

\* The first loop is exhausted; the second loop (line 37) begins.
EndDirLoop ==
  /\ phase = "dir"
  /\ pc = "idle"
  /\ todo = {}
  /\ phase' = "aux"
  /\ UNCHANGED <<fsVars, disk, run, todo, auxi, fixed_count, out, pc, callVars,
                 start, lost, opens, calls, writes>>

\* Mutant of Exists: the existence check is dropped.
ExistsAlways(p) == TRUE

\* os.path.exists: true of files and of directories.
Exists(p) == kind[p] # "absent"

\* lines 37-39: one iteration of the second loop.
NextAux ==
  /\ phase = "aux"
  /\ pc = "idle"
  /\ auxi <= Len(other_files)
  /\ auxi' = auxi + 1
  /\ IF Exists(other_files[auxi])
     THEN Call(other_files[auxi])
     ELSE UNCHANGED <<filepath, pc, acquired, calls>>
  /\ UNCHANGED <<fsVars, disk, run, phase, todo, fixed_count, out, content,
                 original, result, handle, start, lost, opens, writes>>

\* line 42: print(f"Fixed {fixed_count} files")
Report ==
  /\ phase = "aux"
  /\ pc = "idle"
  /\ auxi > Len(other_files)
  /\ out' = Append(out, fixed_count)
  /\ phase' = "done"
  /\ UNCHANGED <<fsVars, disk, run, todo, auxi, fixed_count, pc, callVars,
                 start, lost, opens, calls, writes>>

\* The script is invoked again after an invocation that ran to completion.
Rerun ==
  /\ phase = "done"
  /\ run < MaxRuns
  /\ run' = run + 1
  /\ phase' = "start"
  /\ todo' = {}
  /\ auxi' = 1
  /\ fixed_count' = 0
  /\ out' = <<>>
  /\ filepath' = NoPath
  /\ content' = <<>>
  /\ original' = <<>>
  /\ result' = FALSE
  /\ acquired' = 0
  /\ start' = disk
  /\ opens' = {}
  /\ calls' = NoCalls
  /\ writes' = NoCalls
  /\ lost' = {}
  /\ UNCHANGED <<fsVars, disk, pc, handle>>

(***************************************************************************)
(* fix_imports(filepath), lines 5-20.                                      *)
(***************************************************************************)
Opened(mode) == opens' = opens \cup { <<filepath, mode>> }

\* line 6: open(filepath, 'r') succeeds on a regular file.
OpenRead ==
  /\ pc = "open_r"
  /\ kind[filepath] = "file"
  /\ handle' = "r"
  /\ acquired' = acquired + 1
  /\ Opened("r")
  /\ pc' = "read"
  /\ UNCHANGED <<fsVars, disk, run, phase, todo, auxi, fixed_count, out,
                 filepath, content, original, result, start, lost, calls, writes>>

\* Mutant of OpenReadFail: the error is caught and the file skipped.
OpenReadFailCaught ==
  /\ pc = "open_r"
  /\ Opened("r")
  /\ result' = FALSE
  /\ pc' = "return"
  /\ UNCHANGED <<fsVars, disk, run, phase, todo, auxi, fixed_count, out,
                 filepath, content, original, handle, acquired, start, lost,
                 calls, writes>>

\* line 6: open(filepath, 'r') raises: always on a directory
\* (IsADirectoryError), possibly on a file (PermissionError, I/O error).
OpenReadFail ==
  /\ pc = "open_r"
  /\ Opened("r")
  /\ Raise
  /\ UNCHANGED <<fsVars, disk, run, todo, auxi, fixed_count, out, filepath,
                 content, original, result, acquired, start, lost, calls, writes>>

\* Mutant of ReadAll: the file object is not closed after reading.
ReadAllKeepsOpen ==
  /\ pc = "read"
  /\ content' = disk[filepath]
  /\ pc' = "replace"
  /\ UNCHANGED <<fsVars, disk, run, phase, todo, auxi, fixed_count, out,
                 filepath, original, result, handle, acquired, start, lost,
                 opens, calls, writes>>

\* line 7 and the end of the first `with`: f.read() returns the whole
\* content and the file is closed.
ReadAll ==
  /\ pc = "read"
  /\ content' = disk[filepath]
  /\ handle' = "none"
  /\ pc' = "replace"
  /\ UNCHANGED <<fsVars, disk, run, phase, todo, auxi, fixed_count, out,
                 filepath, original, result, acquired, start, lost, opens, calls,
                 writes>>

\* line 7: f.read() raises (UnicodeDecodeError, I/O error).
ReadFail ==
  /\ pc = "read"
  /\ Raise
  /\ UNCHANGED <<fsVars, disk, run, todo, auxi, fixed_count, out, filepath,
                 content, original, result, acquired, start, lost, opens, calls, writes>>

\* Mutant of Replace: the text is written back whether or not it changed.
ReplaceAlwaysWrites ==
  /\ pc = "replace"
  /\ original' = content
  /\ content' = Substitute(content)
  /\ pc' = "open_w"
  /\ UNCHANGED <<fsVars, disk, run, phase, todo, auxi, fixed_count, out,
                 filepath, handle, result, acquired, start, lost, opens, calls,
                 writes>>

\* lines 9-16 and 20: keep the text read, substitute, compare; return False
\* when nothing changed.
Replace ==
  /\ pc = "replace"
  /\ original' = content
  /\ content' = Substitute(content)
  /\ IF content' # original'
     THEN pc' = "open_w" /\ UNCHANGED result
     ELSE pc' = "return" /\ result' = FALSE
  /\ UNCHANGED <<fsVars, disk, run, phase, todo, auxi, fixed_count, out,
                 filepath, handle, acquired, start, lost, opens, calls, writes>>

\* line 17: open(filepath, 'w') truncates the file to length 0.
OpenWrite ==
  /\ pc = "open_w"
  /\ disk' = [disk EXCEPT ![filepath] = <<>>]
  /\ handle' = "w"
  /\ acquired' = acquired + 1
  /\ Opened("w")
  /\ lost' = IF disk[filepath] # original THEN lost \cup {filepath} ELSE lost
  /\ pc' = "write"
  /\ UNCHANGED <<fsVars, run, phase, todo, auxi, fixed_count, out, filepath,
                 content, original, result, start, calls, writes>>

\* line 17: open(filepath, 'w') raises (PermissionError, read-only file
\* system); the file is not truncated.
OpenWriteFail ==
  /\ pc = "open_w"
  /\ Opened("w")
  /\ Raise
  /\ UNCHANGED <<fsVars, disk, run, todo, auxi, fixed_count, out, filepath,
                 content, original, result, acquired, start, lost, calls, writes>>

\* Mutant of WriteAll: the text read is written instead of the new text.
WriteAllOriginal ==
  /\ pc = "write"
  /\ disk' = [disk EXCEPT ![filepath] = original]
  /\ handle' = "none"
  /\ writes' = [writes EXCEPT ![filepath] = @ + 1]
  /\ result' = TRUE
  /\ pc' = "return"
  /\ UNCHANGED <<fsVars, run, phase, todo, auxi, fixed_count, out, filepath,
                 content, original, acquired, start, lost, opens, calls>>

\* lines 18-19: f.write(content), the end of the second `with` flushes and
\* closes the file, fix_imports returns True.
WriteAll ==
  /\ pc = "write"
  /\ disk' = [disk EXCEPT ![filepath] = content]
  /\ handle' = "none"
  /\ writes' = [writes EXCEPT ![filepath] = @ + 1]
  /\ result' = TRUE
  /\ pc' = "return"
  /\ UNCHANGED <<fsVars, run, phase, todo, auxi, fixed_count, out, filepath,
                 content, original, acquired, start, lost, opens, calls>>

\* line 18 or the flush at the end of the `with` raises (disk full, I/O
\* error): some prefix of the text has reached the file.
WriteFail ==
  /\ pc = "write"
  /\ \E n \in 0..Len(content) :
       disk' = [disk EXCEPT ![filepath] = SubSeq(content, 1, n)]
  /\ Raise
  /\ UNCHANGED <<fsVars, run, todo, auxi, fixed_count, out, filepath, content,
                 original, result, acquired, start, lost, opens, calls, writes>>

\* Mutant of Count: every file processed is counted.
CountAlways ==
  /\ pc = "return"
  /\ fixed_count' = fixed_count + 1
  /\ pc' = "idle"
  /\ UNCHANGED <<fsVars, disk, run, phase, todo, auxi, out, callVars, start,
                 lost, opens, calls, writes>>

\* lines 29-30 and 39-40: `if fix_imports(filepath): fixed_count += 1`
Count ==
  /\ pc = "return"
  /\ fixed_count' = IF result THEN fixed_count + 1 ELSE fixed_count
  /\ pc' = "idle"
  /\ UNCHANGED <<fsVars, disk, run, phase, todo, auxi, out, callVars, start, lost,
                 opens, calls, writes>>

Step ==
  \/ ListDir
  \/ ListDirFail
  \/ NextEntry
  \/ EndDirLoop
  \/ NextAux
  \/ Report
  \/ OpenRead
  \/ OpenReadFail
  \/ ReadAll
  \/ ReadFail
  \/ Replace
  \/ OpenWrite
  \/ OpenWriteFail
  \/ WriteAll
  \/ WriteFail
  \/ Count

Next == Step \/ Rerun

Spec == Init /\ [][Next]_vars

\* One invocation.  The interpreter keeps executing a running script:
\* every step that is enabled is eventually taken.
FairSpec == SmallInit /\ [][Step]_vars /\ WF_vars(Step)

\* The text another process writes.
OtherText == <<"x">>

\* Another process replaces the content of a file while the script runs.
OtherWrite ==
  /\ ~(phase \in {"done", "aborted"})
  /\ \E p \in Paths :
       /\ kind[p] = "file"
       /\ disk[p] # OtherText
       /\ disk' = [disk EXCEPT ![p] = OtherText]
  /\ UNCHANGED <<fsVars, run, phase, todo, auxi, fixed_count, out, pc,
                 callVars, start, lost, opens, calls, writes>>

\* One invocation with another process writing at any moment.
ConcSpec == SmallInit /\ [][Step \/ OtherWrite]_vars

(***************************************************************************)
(* Vocabulary of the properties.                                           *)
(***************************************************************************)
RoutePath(n) == PathJoin(routes_dir, n)
AuxPaths == { other_files[i] : i \in 1..Len(other_files) }

\* The name ends in the four characters `.tsx`.
DotTsx(n) ==
  /\ Len(n) >= 4
  /\ n[Len(n) - 3] = "." /\ n[Len(n) - 2] = "t"
  /\ n[Len(n) - 1] = "s" /\ n[Len(n)] = "x"

\* The files a run is to process: the `.tsx` entries of the listing and the
\* auxiliary paths that exist.
Candidates ==
  { RoutePath(n) : n \in { m \in DirNames : DotTsx(m) /\ kind[RoutePath(m)] # "absent" } }
    \cup { p \in AuxPaths : kind[p] # "absent" }

\* The call fix_imports(p) of this run has returned (it did not raise).
Returned(p) ==
  /\ calls[p] > 0
  /\ filepath = p => (pc \in {"return", "idle"} /\ phase # "aborted")

Ended == phase \in {"done", "aborted"}

\* Start positions of the occurrences of pat in s.
Occ(s, pat) ==
  { i \in 1..(Len(s) - Len(pat) + 1) : SubSeq(s, i, i + Len(pat) - 1) = pat }

\* The occurrences a left-to-right pass takes: an occurrence is taken
\* unless it overlaps one taken to its left.
Taken(s, pat) ==
  CHOOSE T \in SUBSET Occ(s, pat) :
    \A i \in Occ(s, pat) :
      i \in T <=> ~ \E j \in T : j < i /\ i < j + Len(pat)

\* t is s with every taken occurrence of pat turned into rep and every
\* character outside the taken occurrences kept, in place.
IsReplaced(s, pat, rep, t) ==
  LET T == Taken(s, pat)
      shrink == Len(pat) - Len(rep)
      at(i) == i - shrink * Cardinality({ j \in T : j < i })
  IN /\ Len(t) = Len(s) - shrink * Cardinality(T)
     /\ \A i \in T : SubSeq(t, at(i), at(i) + Len(rep) - 1) = rep
     /\ \A i \in 1..Len(s) :
          (~ \E j \in T : j <= i /\ i < j + Len(pat)) => t[at(i)] = s[i]

HasPattern(s) == Occ(s, SinglePattern) # {} \/ Occ(s, DoublePattern) # {}

Rewritten == { p \in Paths : writes[p] > 0 }

Called == { p \in Paths : calls[p] > 0 }

IsPrefix(a, b) == Len(a) <= Len(b) /\ SubSeq(b, 1, Len(a)) = a

\* What holds of a run that has aborted: nothing was printed, no file object
\* is open, and the files rewritten before hold their substituted content.
AbortedState ==
  phase = "aborted" =>
    /\ out = <<>>
    /\ handle = "none"
    /\ \A p \in Rewritten :
         disk[p] = Substitute(start[p]) /\ disk[p] # start[p]

\* A call of fix_imports on a directory does not get past its first open:
\* the run is aborted, in that call.
DirectoryRaises ==
  \A p \in Paths :
    (kind[p] = "dir" /\ calls[p] > 0 /\ ~(filepath = p /\ pc = "open_r")) =>
      (phase = "aborted" /\ filepath = p)

\* The order of a run: at most one call per path, on candidates only, on an
\* auxiliary path only after every `.tsx` entry of the listing; a call in
\* progress is the only one; the line is printed once, at the end.
RunOrder ==
  /\ \A p \in Paths : calls[p] <= 1
  /\ Called \subseteq Candidates
  /\ \A p \in Called \cap AuxPaths :
       /\ phase \notin {"start", "dir"}
       /\ Candidates \ AuxPaths \subseteq Called
  /\ handle # "none" => pc \in {"read", "write"}
  /\ pc # "idle" => (filepath \in Called /\ phase \in {"dir", "aux"})
  /\ phase = "done" => (Called = Candidates /\ Len(out) = 1 /\ pc = "idle")
  /\ phase # "done" => out = <<>>

(***************************************************************************)
(* C1.  Idempotence of a run: when the script has run to completion and    *)
(* is run to completion again with no other writer in between, the second  *)
(* run opens no file for writing, reports a count of 0, and leaves every   *)
(* file's content as the first run left it.                                *)
(***************************************************************************)
Idempotence ==
  (run >= 2 /\ phase = "done") =>
    /\ out = <<0>>
    /\ \A p \in Paths : <<p, "w">> \notin opens
    /\ disk = start

(***************************************************************************)
(* C2.  Selective substitution: when fix_imports(p) returns, the content   *)
(* of p is its content at the start of the run with every                  *)
(* occurrence of the single-quoted pattern taken by a left-to-right pass   *)
(* turned into the single-quoted replacement, then every such occurrence   *)
(* of the double-quoted pattern turned into the double-quoted replacement, *)
(* and every other character unchanged.                                    *)
(***************************************************************************)
SelectiveSubstitution ==
  pc = "return" =>
    LET before == start[filepath]
        mid == StrReplace(before, SinglePattern, SingleReplacement)
    IN /\ IsReplaced(before, SinglePattern, SingleReplacement, mid)
       /\ IsReplaced(mid, DoublePattern, DoubleReplacement, disk[filepath])

\* A file holding both patterns and other text has been processed.
SelectiveSubstitutionWitness ==
  /\ pc = "return"
  /\ start[filepath] = SinglePattern \o DoublePattern \o Cloudflare \o SQ
  /\ disk[filepath] = SingleReplacement \o DoubleReplacement \o Cloudflare \o SQ

(***************************************************************************)
(* C3.  Count accuracy: when a run completes, the one line printed carries *)
(* the number of candidate files rewritten during the run, which are the   *)
(* files whose content differs from their content at the start of the run  *)
(* and the candidates that held a pattern, each counted once whatever the  *)
(* number of occurrences; it is 0 when no candidate holds a pattern.       *)
(***************************************************************************)
CountAccuracy ==
  phase = "done" =>
    /\ out = << Cardinality(Rewritten) >>
    /\ Rewritten \subseteq Candidates
    /\ Rewritten = { p \in Paths : disk[p] # start[p] }
    /\ Rewritten = { p \in Candidates : HasPattern(start[p]) }
    /\ \A p \in Paths : writes[p] <= 1
    /\ (\A p \in Candidates : ~HasPattern(start[p])) => out = <<0>>

\* Two files were rewritten, one of them holding two occurrences.
CountAccuracyWitness ==
  /\ phase = "done"
  /\ out = <<2>>
  /\ \E p \in Rewritten : Cardinality(Occ(start[p], SinglePattern)) = 2

(***************************************************************************)
(* C4.  No partial writes: at every moment of a run the content a reader   *)
(* gets from any file is either the file's content at the start of the run *)
(* or that content fully substituted.                                      *)
(***************************************************************************)
NoPartialWrites ==
  \A p \in Paths : disk[p] = start[p] \/ disk[p] = Substitute(start[p])

(***************************************************************************)
(* C4, as amended.  At every moment of a run the content a reader gets     *)
(* from a file is its content at the start of the run or that content      *)
(* fully substituted, except for the file fix_imports has opened for       *)
(* writing: from that open until the write completes, and from then on if  *)
(* the write fails, the reader gets a prefix of the substituted content    *)
(* (nothing right after the open).  A file fix_imports has returned from   *)
(* holds the substituted content; one it was not called on is untouched.   *)
(***************************************************************************)
WholeExceptWhileWriting ==
  \A p \in Paths :
    /\ \/ disk[p] = start[p]
       \/ disk[p] = Substitute(start[p])
       \/ /\ p = filepath
          /\ pc = "write" \/ phase = "aborted"
          /\ <<p, "w">> \in opens
          /\ IsPrefix(disk[p], Substitute(start[p]))
    /\ Returned(p) => disk[p] = Substitute(start[p])
    /\ calls[p] = 0 => disk[p] = start[p]

\* A write failed part-way: the file holds a proper, non-empty prefix of
\* the substituted content.
WholeExceptWhileWritingWitness ==
  /\ phase = "aborted"
  /\ filepath \in Paths
  /\ disk[filepath] # <<>>
  /\ disk[filepath] # start[filepath]
  /\ Len(disk[filepath]) < Len(content)

(***************************************************************************)
(* C5.  Unchanged files are not rewritten: fix_imports opens the file for  *)
(* writing exactly when the substituted text differs from the text read,   *)
(* it returns True exactly when it wrote, and a file holding neither       *)
(* pattern is never opened for writing and keeps its content.              *)
(***************************************************************************)
UnchangedNotRewritten ==
  /\ pc \in {"open_w", "write"} => content # original
  /\ pc = "return" =>
       /\ result <=> content # original
       /\ result <=> <<filepath, "w">> \in opens
       /\ result <=> writes[filepath] = 1
  /\ \A p \in Paths :
       (<<p, "w">> \in opens \/ writes[p] > 0 \/ disk[p] # start[p])
         => HasPattern(start[p])

\* A file with text but neither pattern was read and not written, while
\* another file was rewritten.
UnchangedNotRewrittenWitness ==
  \E p \in Paths :
    /\ Returned(p)
    /\ start[p] # <<>>
    /\ ~HasPattern(start[p])
    /\ <<p, "r">> \in opens
    /\ <<p, "w">> \notin opens
    /\ Rewritten # {}

(***************************************************************************)
(* C6.  Non-candidate exclusion: an entry of the routes directory whose    *)
(* name does not end in `.tsx` and that is not in other_files is never     *)
(* passed to fix_imports, never opened, and keeps its content.             *)
(***************************************************************************)
NonCandidateExclusion ==
  \A n \in DirNames :
    (~DotTsx(n) /\ RoutePath(n) \notin AuxPaths) =>
      /\ calls[RoutePath(n)] = 0
      /\ \A mode \in {"r", "w"} : <<RoutePath(n), mode>> \notin opens
      /\ disk[RoutePath(n)] = start[RoutePath(n)]

\* A run that rewrote a file has completed and left a non-candidate that
\* holds a pattern as it was.
NonCandidateExclusionWitness ==
  /\ phase = "done"
  /\ Rewritten # {}
  /\ \E n \in DirNames :
       /\ ~DotTsx(n)
       /\ kind[RoutePath(n)] = "file"
       /\ HasPattern(disk[RoutePath(n)])

(***************************************************************************)
(* C7.  Missing auxiliary path: an entry of other_files that does not      *)
(* exist is not passed to fix_imports and not opened, skipping it raises   *)
(* nothing, and it adds nothing to the count reported.                     *)
(***************************************************************************)
MissingAuxSkipped ==
  \A i \in 1..Len(other_files) :
    kind[other_files[i]] = "absent" =>
      /\ calls[other_files[i]] = 0
      /\ \A mode \in {"r", "w"} : <<other_files[i], mode>> \notin opens
      /\ auxi = i + 1 => (phase \in {"aux", "done"} /\ pc = "idle")
      /\ phase = "done" =>
           out = << Cardinality({ q \in Paths \ {other_files[i]} :
                                    disk[q] # start[q] }) >>

\* A run with a missing auxiliary path completed and reported the one file
\* it rewrote.
MissingAuxSkippedWitness ==
  /\ phase = "done"
  /\ kind[other_files[1]] = "absent"
  /\ out = <<1>>

(***************************************************************************)
(* C8.  Fatal read/write failure: a call of fix_imports on a `.tsx` entry  *)
(* that is a subdirectory raises; once an error is raised nothing is       *)
(* caught: no further step is taken, so no later candidate is read or      *)
(* written and nothing is printed; the files rewritten before the error    *)
(* keep their substituted content.                                         *)
(***************************************************************************)
FatalFailure ==
  /\ [](AbortedState /\ DirectoryRaises)
  /\ [][phase = "aborted" => UNCHANGED vars]_vars

\* A run rewrote one file and then aborted on a candidate that is a
\* directory.
FatalFailureWitness ==
  /\ phase = "aborted"
  /\ Rewritten # {}
  /\ kind[filepath] = "dir"

(***************************************************************************)
(* C9.  Single scoped acquisition per file: fix_imports reads and rewrites *)
(* a file within one acquisition of its file object, so that no write of   *)
(* another process to the file falls between the read and the rewrite and  *)
(* is overwritten by text computed from the stale read.                    *)
(***************************************************************************)
SingleScopedAcquisition ==
  /\ acquired <= 1
  /\ lost = {}

(***************************************************************************)
(* C9, as amended.  Two scoped acquisitions per file: fix_imports reads    *)
(* the file within one acquisition, which is closed before the text is     *)
(* substituted; only if the text changed it acquires the file a second     *)
(* time, to rewrite it; no file object is open when fix_imports is entered *)
(* or has returned, so each file is closed before the next is touched.     *)
(***************************************************************************)
TwoScopedAcquisitions ==
  /\ acquired \in 0..2
  /\ handle = "r" => (pc = "read" /\ acquired = 1)
  /\ handle = "w" => (pc = "write" /\ acquired = 2)
  /\ pc \in {"replace", "open_w"} => (handle = "none" /\ acquired = 1)
  /\ pc \in {"idle", "open_r", "return"} => handle = "none"
  /\ pc = "return" => acquired = (IF result THEN 2 ELSE 1)
  /\ \A p \in lost : <<p, "w">> \in opens

\* fix_imports has rewritten a file from text it read before another
\* process wrote the file: that write is gone.
TwoScopedAcquisitionsWitness ==
  /\ pc = "return"
  /\ result
  /\ acquired = 2
  /\ filepath \in lost
  /\ disk[filepath] = content
  /\ content = Substitute(start[filepath])

(***************************************************************************)
(* C10.  Termination and ordering of a run: fix_imports is called at most  *)
(* once per path and only on candidates, on an auxiliary path only after   *)
(* every `.tsx` entry of the listing has been processed, and on one file   *)
(* at a time; a run that completes has called it exactly once on every     *)
(* candidate and printed exactly one line, a run that aborts has printed   *)
(* nothing; and every run eventually completes or aborts.                  *)
(***************************************************************************)
RunTerminatesInOrder ==
  /\ []RunOrder
  /\ ~Ended ~> Ended

\* A run completed after processing a `.tsx` entry of the listing and the
\* auxiliary path, in the presence of an entry that is no candidate.
RunTerminatesInOrderWitness ==
  /\ phase = "done"
  /\ Cardinality(Called) = 2
  /\ \E n \in DirNames : ~DotTsx(n) /\ kind[RoutePath(n)] # "absent"

====
